---- MODULE Spec2Model ----
(***************************************************************************)
(* Model of scripts/avatars/sdk_avatars.py: a Blender batch script that    *)
(* re-imports a GLB file, renames the avatar root and the viseme shape     *)
(* keys, applies transforms and exports the file in place.                 *)
(*                                                                         *)
(* The script is a straight-line procedure; every step of it is one        *)
(* action, and pc is the position of the interpreter in the module body.   *)
(* The host scene is modelled as far as the script reads or writes it:     *)
(*   objs        bpy.data.objects / scene.objects: name, parent, data,     *)
(*               transform (identity or not), selection flag               *)
(*   key_blocks  the key blocks (names, in order) of the mesh data-block   *)
(*               that objects with data = "mesh" share; <<>> is a mesh     *)
(*               without shape keys (shape_keys is None)                   *)
(*   disk        the GLB file stored under each path                       *)
(* Python's -1 of find() is 0 here, since sequences are indexed from 1.    *)
(***************************************************************************)
EXTENDS Naturals, Sequences, FiniteSets, TLC

VARIABLES argv, pc, input_file, term, status, out, ops,
          objs, key_blocks, active, shape_keys_processed,
          disk, scene0, processed

vars == <<argv, pc, input_file, term, status, out, ops,
          objs, key_blocks, active, shape_keys_processed,
          disk, scene0, processed>>

----------------------------------------------------------------------------
(* Bounds of the enumerated input files. *)
MaxObjs == 2
MaxKeys == 2

(* Names given to the nodes and to the morph targets of an input file. *)
ObjNames == {"AvatarRoot", "Armature", "Body"}
KeyNames == {"Basis", "aa", "ih", "viseme_aa"}
Paths == {"a.glb", "b.glb"}

(* The command lines of the host: with and without the "--" separator,     *)
(* with and without a path after it.                                       *)
ArgvChoices ==
  { <<"blender", "--python", "sdk_avatars.py">>,
    <<"blender", "--python", "sdk_avatars.py", "--">>,
    <<"blender", "--python", "sdk_avatars.py", "--", "a.glb">> }

----------------------------------------------------------------------------
(* Variants of the table: a regular target for "ih"; an entry written      *)
(* target first.                                                           *)
shapekeyMapRegular ==
  << <<"sil", "viseme_sil">>, <<"PP", "viseme_PP">>, <<"FF", "viseme_FF">>,
     <<"TH", "viseme_TH">>, <<"DD", "viseme_DD">>, <<"kk", "viseme_kk">>,
     <<"CH", "viseme_CH">>, <<"SS", "viseme_SS">>, <<"nn", "viseme_nn">>,
     <<"RR", "viseme_RR">>, <<"aa", "viseme_aa">>, <<"E", "viseme_E">>,
     <<"ih", "viseme_ih">>, <<"oh", "viseme_O">>, <<"ou", "viseme_U">> >>

shapekeyMapReversed ==
  << <<"sil", "viseme_sil">>, <<"PP", "viseme_PP">>, <<"FF", "viseme_FF">>,
     <<"TH", "viseme_TH">>, <<"DD", "viseme_DD">>, <<"kk", "viseme_kk">>,
     <<"CH", "viseme_CH">>, <<"SS", "viseme_SS">>, <<"nn", "viseme_nn">>,
     <<"RR", "viseme_RR">>, <<"viseme_aa", "aa">>, <<"E", "viseme_E">>,
     <<"ih", "viseme_I">>, <<"oh", "viseme_O">>, <<"ou", "viseme_U">> >>

(* The rename table, in the order of the source. *)
shapekeyMap ==
  << <<"sil", "viseme_sil">>, <<"PP", "viseme_PP">>, <<"FF", "viseme_FF">>,
     <<"TH", "viseme_TH">>, <<"DD", "viseme_DD">>, <<"kk", "viseme_kk">>,
     <<"CH", "viseme_CH">>, <<"SS", "viseme_SS">>, <<"nn", "viseme_nn">>,
     <<"RR", "viseme_RR">>, <<"aa", "viseme_aa">>, <<"E", "viseme_E">>,
     <<"ih", "viseme_I">>, <<"oh", "viseme_O">>, <<"ou", "viseme_U">> >>

Range(s) == {s[i] : i \in 1..Len(s)}

(* list.index / collection.find: the first position of x in s, 0 if none. *)
Find(s, x) ==
  IF \E i \in 1..Len(s) : s[i] = x
    THEN CHOOSE i \in 1..Len(s) : s[i] = x /\ \A j \in 1..(i-1) : s[j] # x
    ELSE 0

(* The tail argv[i+1:] of a Python list. *)
After(s, i) == [k \in 1..(Len(s) - i) |-> s[i + k]]

----------------------------------------------------------------------------
(* Host naming rule: a name assigned to a data-block that is already used  *)
(* by another block of the same collection gets the first free numeric     *)
(* suffix (.001, .002, ...); the block that had the name keeps it.         *)
Digit == <<"1", "2", "3", "4", "5", "6", "7", "8", "9">>

Numbered(name, k) == name \o ".00" \o Digit[k]

UniqueName(name, used) ==
  IF name \notin used THEN name
  ELSE Numbered(name, CHOOSE k \in 1..Len(Digit) :
                        /\ Numbered(name, k) \notin used
                        /\ \A j \in 1..(k-1) : Numbered(name, j) \in used)

(* The names of s made unique from left to right, as blocks are created. *)
RECURSIVE UniqueNames(_, _)
UniqueNames(s, done) ==
  IF s = <<>> THEN done
  ELSE UniqueNames(Tail(s), Append(done, UniqueName(Head(s), Range(done))))

----------------------------------------------------------------------------
(* Input files: up to MaxObjs nodes in a forest (a parent precedes its     *)
(* children), each with or without the mesh, and up to MaxKeys morph       *)
(* targets with distinct names on the mesh, if a node uses it.             *)
(* Transforms of a raw file are not the identity.                          *)
FileObjs(n) ==
  { s \in [1..n -> [name : ObjNames, parent : 0..(n-1), data : {"none", "mesh"},
                    ident : {FALSE}]] :
      \A i \in 1..n : s[i].parent < i }

FileKeys ==
  UNION { { s \in [1..k -> KeyNames] : \A i, j \in 1..k : i # j => s[i] # s[j] }
          : k \in 0..MaxKeys }

Files ==
  UNION { { f \in [objs : FileObjs(n), keys : FileKeys] :
              f.keys # <<>> => \E i \in 1..n : f.objs[i].data = "mesh" }
          : n \in 1..MaxObjs }

(* The startup scene of the host. *)
StartupScene ==
  << [name |-> "Cube", parent |-> 0, data |-> "none", ident |-> TRUE, sel |-> FALSE] >>

NoScene == [objs |-> <<>>, keys |-> <<>>]

Init ==
  /\ argv \in ArgvChoices
  /\ pc = "args"
  /\ input_file = ""
  /\ term = "running"
  /\ status = 0
  /\ out = <<>>
  /\ ops = <<>>
  /\ objs = StartupScene
  /\ key_blocks = <<>>
  /\ active = 0
  /\ shape_keys_processed = 0
  /\ \E f \in Files : disk = [p \in Paths |-> f]
  /\ scene0 = NoScene
  /\ processed = FALSE

----------------------------------------------------------------------------
(* How the process ends.  An uncaught Python exception ends the script     *)
(* with a traceback; the exit status is then the host's choice (Blender    *)
(* without --python-exit-code exits 0, a plain interpreter exits 1).       *)
SysExit(code) ==
  /\ term' = "sys_exit"
  /\ status' = code
  /\ pc' = "exited"

Uncaught ==
  /\ term' = "exception"
  /\ status' \in {0, 1}
  /\ pc' = "exited"

(* Lines 6-14: take the arguments after "--"; without one, usage and exit. *)
ParseArgs ==
  /\ pc = "args"
  /\ LET sep == Find(argv, "--") IN
       IF sep = 0
         THEN \* argv.index("--") raises ValueError
              /\ Uncaught
              /\ UNCHANGED <<input_file, out>>
         ELSE LET rest == After(argv, sep) IN
                IF Len(rest) < 1
                  THEN /\ out' = Append(out, <<"usage">>)
                       /\ SysExit(1)
                       /\ UNCHANGED input_file
                  ELSE /\ input_file' = rest[1]
                       /\ out' = Append(out, <<"processing", rest[1]>>)
                       /\ pc' = "clear"
                       /\ UNCHANGED <<term, status>>
  /\ UNCHANGED <<argv, ops, objs, key_blocks, active, shape_keys_processed,
                 disk, scene0, processed>>

(* Lines 37-38: select every object, delete the selected ones. *)
SelectAll(os) == [i \in 1..Len(os) |-> [os[i] EXCEPT !.sel = TRUE]]

DeleteSelected(os) == SelectSeq(os, LAMBDA o : ~o.sel)

ClearScene ==
  /\ pc = "clear"
  /\ objs' = DeleteSelected(SelectAll(objs))
  /\ key_blocks' = <<>>
  /\ active' = 0
  /\ ops' = ops \o << <<"select_all">>, <<"delete">> >>
  /\ pc' = "import"
  /\ UNCHANGED <<argv, input_file, term, status, out, shape_keys_processed,
                 disk, scene0, processed>>

(* The objects the importer creates for the nodes of a file: names made    *)
(* unique, selected or not as the importer leaves them.                    *)
ImportedObjs(f, selected) ==
  LET names == UniqueNames([i \in 1..Len(f.objs) |-> f.objs[i].name], <<>>) IN
    [i \in 1..Len(f.objs) |->
       [name |-> names[i], parent |-> f.objs[i].parent, data |-> f.objs[i].data,
        ident |-> f.objs[i].ident, sel |-> selected]]

(* Line 42: filepath=input_file. *)
ImportPath == input_file

ImportOk(selected) ==
  /\ objs' = ImportedObjs(disk[ImportPath], selected)
  /\ key_blocks' = UniqueNames(disk[ImportPath].keys, <<>>)
  /\ scene0' = [objs |-> objs', keys |-> key_blocks']
  /\ out' = Append(out, <<"imported">>)
  /\ pc' = "rename_root"
  /\ UNCHANGED <<term, status>>

(* The failure reported without leaving the script. *)
ImportFailedContinues ==
  /\ out' = Append(out, <<"import_failed">>)
  /\ pc' = "rename_root"
  /\ UNCHANGED <<objs, key_blocks, scene0, term, status>>

ImportFailed ==
  /\ out' = Append(out, <<"import_failed">>)
  /\ SysExit(1)
  /\ UNCHANGED <<objs, key_blocks, scene0>>

(* Lines 41-46: import the file; an exception of the operator is fatal. *)
Import ==
  /\ pc = "import"
  /\ ops' = Append(ops, <<"import", ImportPath>>)
  /\ \/ \E selected \in BOOLEAN : ImportOk(selected)
     \/ ImportFailed
  /\ UNCHANGED <<argv, input_file, active, shape_keys_processed, disk, processed>>

Names(os) == [i \in 1..Len(os) |-> os[i].name]

(* The name setter of an object: unique among the other objects. *)
SetObjName(os, idx, name) ==
  [os EXCEPT ![idx].name =
     UniqueName(name, {os[j].name : j \in (1..Len(os)) \ {idx}})]

(* Lines 49-52: rename the object found under "AvatarRoot". *)
RenameRoot ==
  /\ pc = "rename_root"
  /\ LET idx == Find(Names(objs), "AvatarRoot") IN
       IF idx # 0
         THEN /\ objs' = SetObjName(objs, idx, "Armature")
              /\ out' = Append(out, <<"renamed_root">>)
         ELSE UNCHANGED <<objs, out>>
  /\ pc' = "apply"
  /\ UNCHANGED <<argv, input_file, term, status, ops, key_blocks, active,
                 shape_keys_processed, disk, scene0, processed>>

(* object.transform_apply acts on every selected object.  It refuses (an   *)
(* error report, hence RuntimeError in Python) when a selected object's    *)
(* data has more than one user, and then changes nothing.                  *)
MultiUser(os, i) ==
  /\ os[i].data = "mesh"
  /\ Cardinality({j \in 1..Len(os) : os[j].data = "mesh"}) > 1

TransformApplyRefused(os) == \E i \in 1..Len(os) : os[i].sel /\ MultiUser(os, i)

TransformApply(os) ==
  [i \in 1..Len(os) |-> IF os[i].sel THEN [os[i] EXCEPT !.ident = TRUE] ELSE os[i]]

(* Lines 55-60: make the object named "Armature" active and selected and   *)
(* apply location, rotation and scale.                                     *)
ApplyTransforms ==
  /\ pc = "apply"
  /\ LET armature == Find(Names(objs), "Armature") IN
       IF armature # 0
         THEN LET picked == [objs EXCEPT ![armature].sel = TRUE] IN
                /\ active' = armature
                /\ ops' = Append(ops, <<"transform_apply">>)
                /\ IF TransformApplyRefused(picked)
                     THEN /\ objs' = picked
                          /\ Uncaught
                          /\ UNCHANGED out
                     ELSE /\ objs' = TransformApply(picked)
                          /\ out' = Append(out, <<"applied">>)
                          /\ pc' = "keys"
                          /\ UNCHANGED <<term, status>>
         ELSE /\ pc' = "keys"
              /\ UNCHANGED <<objs, active, ops, out, term, status>>
  /\ UNCHANGED <<argv, input_file, key_blocks, shape_keys_processed,
                 disk, scene0, processed>>

----------------------------------------------------------------------------
(* Lines 26-30: x, then the traversal of each child of x. *)
Children(os, x) ==
  SelectSeq([i \in 1..Len(os) |-> i], LAMBDA j : os[j].parent = x)

RECURSIVE Flatten(_)
Flatten(ss) == IF ss = <<>> THEN <<>> ELSE Head(ss) \o Flatten(Tail(ss))

RECURSIVE traverse(_, _)
traverse(os, x) ==
  LET ch == Children(os, x) IN
    <<x>> \o Flatten([k \in 1..Len(ch) |-> traverse(os, ch[k])])

(* Lines 64-65: the objects the two outer loops visit, in order: the       *)
(* traversal is started from every object of the scene.                    *)
Visits(os) == Flatten([r \in 1..Len(os) |-> traverse(os, r)])

(* Lines 33-34. *)
hasShapekeys(os, ks, o) == os[o].data = "mesh" /\ ks # <<>>

(* The name setter of a key block: unique among the other key blocks. *)
SetKeyName(ks, idx, name) ==
  [ks EXCEPT ![idx] = UniqueName(name, {ks[j] : j \in (1..Len(ks)) \ {idx}})]

(* The key counted and reported, the new name not stored. *)
KeyRenamedLost(st, idx, m) ==
  [keys |-> st.keys,
   n    |-> st.n + 1,
   out  |-> Append(st.out, <<"renamed_key", m[1], m[2]>>)]

(* Lines 71-73: rename the key found, count it, report it. *)
KeyRenamed(st, idx, m) ==
  [keys |-> SetKeyName(st.keys, idx, m[2]),
   n    |-> st.n + 1,
   out  |-> Append(st.out, <<"renamed_key", m[1], m[2]>>)]

(* The loop with the count taken for every table entry, found or not. *)
RECURSIVE RenameKeysDedented(_, _)
RenameKeysDedented(st, i) ==
  IF i > Len(shapekeyMap) THEN st
  ELSE LET m   == shapekeyMap[i]
           idx == Find(st.keys, m[1])
           nx  == IF idx # 0 THEN KeyRenamed(st, idx, m)
                             ELSE [st EXCEPT !.n = st.n + 1]
       IN  RenameKeysDedented(nx, i + 1)

(* Lines 68-73: the table entries from the i-th on, applied to one key set. *)
RECURSIVE RenameKeys(_, _)
RenameKeys(st, i) ==
  IF i > Len(shapekeyMap) THEN st
  ELSE LET m   == shapekeyMap[i]
           idx == Find(st.keys, m[1])
       IN  IF idx # 0 THEN RenameKeys(KeyRenamed(st, idx, m), i + 1)
                      ELSE RenameKeys(st, i + 1)

(* Lines 64-73: the visits from the v-th on. *)
RECURSIVE RenameLoop(_, _, _, _)
RenameLoop(os, visits, v, st) ==
  IF v > Len(visits) THEN st
  ELSE IF hasShapekeys(os, st.keys, visits[v])
         THEN RenameLoop(os, visits, v + 1, RenameKeys(st, 1))
         ELSE RenameLoop(os, visits, v + 1, st)

(* Lines 63-75: rename the shape keys of every object, report the count. *)
RenameShapeKeys ==
  /\ pc = "keys"
  /\ LET st == RenameLoop(objs, Visits(objs), 1,
                          [keys |-> key_blocks, n |-> 0, out |-> out])
     IN  /\ key_blocks' = st.keys
         /\ shape_keys_processed' = st.n
         /\ out' = Append(st.out, <<"processed", st.n>>)
  /\ pc' = "export"
  /\ UNCHANGED <<argv, input_file, term, status, ops, objs, active,
                 disk, scene0, processed>>

(* The file the exporter writes for the scene: the objects and the key     *)
(* blocks under the names they have.                                       *)
SceneFile(os, ks) ==
  [objs |-> [i \in 1..Len(os) |->
               [name |-> os[i].name, parent |-> os[i].parent,
                data |-> os[i].data, ident |-> os[i].ident]],
   keys |-> ks]

(* Line 79: filepath=input_file. *)
ExportPathElsewhere == CHOOSE p \in Paths : p # input_file

ExportPath == input_file

ExportOk ==
  /\ disk' = [disk EXCEPT ![ExportPath] = SceneFile(objs, key_blocks)]
  /\ out' = Append(out, <<"exported">>)
  /\ pc' = "finish"
  /\ UNCHANGED <<term, status>>

ExportFailed ==
  /\ out' = Append(out, <<"export_failed">>)
  /\ SysExit(1)
  /\ UNCHANGED disk

(* Lines 78-83: export to the input path; an exception is fatal. *)
Export ==
  /\ pc = "export"
  /\ ops' = Append(ops, <<"export", ExportPath>>)
  /\ \/ ExportOk
     \/ ExportFailed
  /\ UNCHANGED <<argv, input_file, objs, key_blocks, active,
                 shape_keys_processed, scene0, processed>>

(* Line 85, and the end of the module body. *)
Finish ==
  /\ pc = "finish"
  /\ out' = Append(out, <<"complete">>)
  /\ term' = "normal"
  /\ status' = 0
  /\ pc' = "exited"
  /\ UNCHANGED <<argv, input_file, ops, objs, key_blocks, active,
                 shape_keys_processed, disk, scene0, processed>>

(* The same command line is run again, in a fresh host process, on the     *)
(* files as the earlier run left them.                                     *)
Rerun ==
  /\ pc = "exited"
  /\ pc' = "args"
  /\ input_file' = ""
  /\ term' = "running"
  /\ status' = 0
  /\ out' = <<>>
  /\ ops' = <<>>
  /\ objs' = StartupScene
  /\ key_blocks' = <<>>
  /\ active' = 0
  /\ shape_keys_processed' = 0
  /\ scene0' = NoScene
  /\ processed' = (processed \/ term = "normal")
  /\ UNCHANGED <<argv, disk>>

Next ==
  \/ ParseArgs
  \/ ClearScene
  \/ Import
  \/ RenameRoot
  \/ ApplyTransforms
  \/ RenameShapeKeys
  \/ Export
  \/ Finish
  \/ Rerun

Spec == Init /\ [][Next]_vars

----------------------------------------------------------------------------
(* The statements checked.  The rename table is spelled out here as the    *)
(* documentation gives it, independently of shapekeyMap.                   *)
VisemePairs ==
  { <<"sil", "viseme_sil">>, <<"PP", "viseme_PP">>, <<"FF", "viseme_FF">>,
    <<"TH", "viseme_TH">>, <<"DD", "viseme_DD">>, <<"kk", "viseme_kk">>,
    <<"CH", "viseme_CH">>, <<"SS", "viseme_SS">>, <<"nn", "viseme_nn">>,
    <<"RR", "viseme_RR">>, <<"aa", "viseme_aa">>, <<"E", "viseme_E">>,
    <<"ih", "viseme_I">>, <<"oh", "viseme_O">>, <<"ou", "viseme_U">> }

SourceNames == {p[1] : p \in VisemePairs}

Printed(tag) == \E i \in 1..Len(out) : out[i][1] = tag

Called(op) == \E i \in 1..Len(ops) : ops[i][1] = op

NoInputPath == "--" \notin Range(argv) \/ argv[Len(argv)] = "--"

(* The scene has been imported and the script has run past the rename of   *)
(* the root and the transform step / past the shape-key loop.              *)
PastTransforms == Printed("imported") /\ (pc \in {"keys", "export", "finish"} \/ Printed("processed"))

PastKeys == Printed("processed")

HasMesh(os) == \E i \in 1..Len(os) : os[i].data = "mesh"

(* C1: when no input path is supplied (nothing after "--", or no "--"),    *)
(* the process ends with the usage message and a non-zero status, before   *)
(* the scene is cleared and before any import or export.                   *)
C1_UsageOnMissingPath ==
  (pc = "exited" /\ NoInputPath) =>
     /\ out = << <<"usage">> >>
     /\ status # 0
     /\ ops = <<>>
     /\ objs = StartupScene

(* C2: a failed import ends the process at once with the failure message   *)
(* and a non-zero status: no rename of the root, no transform apply, no    *)
(* shape-key rename and no export follow it.                               *)
C2_ImportFailureIsFatal ==
  Printed("import_failed") =>
     /\ pc = "exited"
     /\ term = "sys_exit"
     /\ status # 0
     /\ out = << <<"processing", input_file>>, <<"import_failed">> >>
     /\ ops = << <<"select_all">>, <<"delete">>, <<"import", input_file>> >>
     /\ objs = <<>>
     /\ key_blocks = <<>>
     /\ shape_keys_processed = 0

C2_Witness ==
  /\ pc = "exited"
  /\ Printed("import_failed")
  /\ processed

(* C3: the exit status is non-zero exactly when the argument was missing,  *)
(* the import failed or the export failed; every other run reaches the     *)
(* export and ends normally; after a failed export the completion message  *)
(* is not printed.  Stated for the command lines that have the "--"        *)
(* separator; the ones without it are the matter of C1.                    *)
C3_ExactlyThreeFatalConditions ==
  (pc = "exited" /\ "--" \in Range(argv)) =>
    LET fatal == NoInputPath \/ Printed("import_failed") \/ Printed("export_failed") IN
      /\ status # 0 <=> fatal
      /\ ~fatal => /\ term = "normal"
                   /\ Called("export")
                   /\ Printed("complete")
      /\ Printed("export_failed") => ~Printed("complete")

(* C4: an object imported under the name "AvatarRoot" is, after the        *)
(* rename and the transform step, named "Armature" and has the identity    *)
(* transform.                                                              *)
C4_AvatarRootBecomesArmature ==
  PastTransforms =>
    \A i \in 1..Len(objs) :
      scene0.objs[i].name = "AvatarRoot" =>
        objs[i].name = "Armature" /\ objs[i].ident

(* C5 as stated: after the loop every key that had a source name has       *)
(* exactly the target name, and every other key has its name and place.    *)
C5_SourceBecomesTarget ==
  (PastKeys /\ HasMesh(objs)) =>
    /\ Len(key_blocks) = Len(scene0.keys)
    /\ \A k \in 1..Len(key_blocks) :
         /\ \A p \in VisemePairs :
              scene0.keys[k] = p[1] => key_blocks[k] = p[2]
         /\ scene0.keys[k] \notin SourceNames => key_blocks[k] = scene0.keys[k]

(* C5 amended: after the loop every key that had a source name has exactly *)
(* the target name when no other key of the set had that name before; when *)
(* one had, the renamed key has a new name that is neither the source, nor *)
(* the target, nor any name of the set before.  Every key that had no      *)
(* source name keeps its name and place.                                   *)
C5_SourceBecomesTargetUnlessTaken ==
  (PastKeys /\ HasMesh(objs)) =>
    /\ Len(key_blocks) = Len(scene0.keys)
    /\ \A k \in 1..Len(key_blocks) :
         /\ \A p \in VisemePairs :
              scene0.keys[k] = p[1] =>
                IF p[2] \in Range(scene0.keys)
                  THEN key_blocks[k] \notin (Range(scene0.keys) \cup {p[2]})
                  ELSE key_blocks[k] = p[2]
         /\ scene0.keys[k] \notin SourceNames => key_blocks[k] = scene0.keys[k]

C5_Witness ==
  /\ pc = "export"
  /\ \E k \in 1..Len(key_blocks) :
       /\ scene0.keys[k] = "aa"
       /\ key_blocks[k] = "viseme_aa"
  /\ \E k \in 1..Len(key_blocks) : scene0.keys[k] \notin SourceNames

(* C6: a run on a file that an earlier run has processed renames no shape  *)
(* key and reports zero, and no source name is present; no target of the   *)
(* table is a source of the table.                                         *)
C6_RerunRenamesNothing ==
  /\ \A i, j \in 1..Len(shapekeyMap) : shapekeyMap[i][2] # shapekeyMap[j][1]
  /\ (processed /\ Printed("imported")) =>
        Range(scene0.keys) \cap SourceNames = {}
  /\ (processed /\ PastKeys) =>
        /\ shape_keys_processed = 0
        /\ ~Printed("renamed_key")
        /\ key_blocks = scene0.keys
        /\ Range(key_blocks) \cap SourceNames = {}

C6_Witness ==
  /\ processed
  /\ pc = "export"
  /\ HasMesh(objs)
  /\ "viseme_I" \in Range(key_blocks)

(* C7: when no imported shape key has a source name, every shape key has   *)
(* its name after the loop and the reported count is zero.                 *)
C7_NoMatchNoChange ==
  (PastKeys /\ Range(scene0.keys) \cap SourceNames = {}) =>
     /\ key_blocks = scene0.keys
     /\ shape_keys_processed = 0
     /\ \E i \in 1..Len(out) : out[i] = <<"processed", 0>>

C7_Witness ==
  /\ pc = "export"
  /\ ~processed
  /\ HasMesh(objs)
  /\ scene0.keys = <<"viseme_aa">>

(* The place of a printed line in the order of the steps. *)
StepRank(tag) ==
  CASE tag = "processing"    -> 1
    [] tag = "imported"      -> 2
    [] tag = "import_failed" -> 2
    [] tag = "renamed_root"  -> 3
    [] tag = "applied"       -> 4
    [] tag = "renamed_key"   -> 5
    [] tag = "processed"     -> 6
    [] tag = "exported"      -> 7
    [] tag = "export_failed" -> 7
    [] tag = "complete"      -> 8
    [] OTHER                 -> 0

IsPrefix(s, t) == Len(s) <= Len(t) /\ \A i \in 1..Len(s) : s[i] = t[i]

(* C8: with an input path the steps run in the order clear, import,        *)
(* rename of the root, transform apply, shape-key rename, export, each at  *)
(* most once; the export follows a successful import and the end of the    *)
(* shape-key loop, and writes the path that was imported.                  *)
C8_StepsInOrder ==
  input_file # "" =>
    LET hostOps == SelectSeq(ops, LAMBDA op : op[1] # "transform_apply")
        path    == After(argv, Find(argv, "--"))[1]
    IN
      /\ input_file = path
      /\ IsPrefix(hostOps, << <<"select_all">>, <<"delete">>,
                              <<"import", path>>, <<"export", path>> >>)
      /\ \A i \in 1..Len(ops) : ops[i][1] = "transform_apply" => i = 4
      /\ \A i, j \in 1..Len(out) :
           i < j => \/ StepRank(out[i][1]) < StepRank(out[j][1])
                    \/ out[i][1] = "renamed_key" /\ out[j][1] = "renamed_key"
      /\ Called("transform_apply") => Printed("imported")
      /\ Called("export") => Printed("imported") /\ Printed("processed")
      /\ Printed("exported") => disk[path] = SceneFile(objs, key_blocks)

C8_Witness ==
  /\ pc = "exited"
  /\ term = "normal"
  /\ Printed("renamed_root")
  /\ Printed("applied")
  /\ Printed("renamed_key")
  /\ Len(ops) = 5

(* C9: the reported count is the number of shape keys whose name changed   *)
(* during the run, however often the loop visits an object or a key set.   *)
C9_CountIsRenamedKeys ==
  PastKeys =>
    /\ Len(key_blocks) = Len(scene0.keys)
    /\ shape_keys_processed =
         Cardinality({k \in 1..Len(key_blocks) : key_blocks[k] # scene0.keys[k]})
    /\ \E i \in 1..Len(out) : out[i] = <<"processed", shape_keys_processed>>
    /\ Cardinality({i \in 1..Len(out) : out[i][1] = "renamed_key"}) = shape_keys_processed

C9_Witness ==
  /\ pc = "export"
  /\ shape_keys_processed = 2
  /\ \E i, j \in 1..Len(objs) :
       /\ objs[j].parent = i
       /\ objs[i].data = "mesh"
       /\ objs[j].data = "mesh"

(* C10: the transform step changes the transform of the object named       *)
(* "Armature" only; without such an object no transform changes.           *)
C10_OnlyArmatureTransformed ==
  PastTransforms =>
    \A i \in 1..Len(objs) :
      objs[i].name # "Armature" => objs[i].ident = scene0.objs[i].ident

====
